---- MODULE Spec2Model ----
(***************************************************************************)
(* Content-addressed filter store of the Sisukas Filters API.              *)
(*                                                                         *)
(* Two variants are modelled: the remote one (filters-api, a GCS bucket    *)
(* with a conditional upload and an lru_cache in front of load) and the    *)
(* local one (filter-api, JSON files in a directory).  A worker is one     *)
(* server process: its handlers are `async def` without any await, so a    *)
(* process runs one request to completion at a time; several processes     *)
(* share the bucket (or the directory) and interleave at the granularity   *)
(* of the backend calls.  Each process has its own lru_cache.              *)
(***************************************************************************)
EXTENDS Integers, Sequences, FiniteSets, TLC

\* ------------------------------------------------------------------ bounds
NumWorkers == 2        \* server processes sharing the backend
MaxOps == 5            \* requests handled in a single-process run
MaxConcOps == 3        \* requests handled in a multi-process run

\* ------------------------------------------------------ program constants
MIN_LENGTH == 16
MAX_LENGTH == 64
CACHE_MAXSIZE == 256

Workers == 1..NumWorkers

\* ------------------------------------------------------------- documents
\* A document is a dict: a sequence of <<key, value>> pairs in insertion
\* order, keys unique.  A JSON text is the sequence of its tokens.
KeyOrder == <<"a", "b", "c">>

DocA == << <<"a", 1>>, <<"b", 2>> >>
DocA2 == << <<"b", 2>>, <<"a", 1>> >>
DocB == << <<"a", 2>> >>

Docs == {DocA, DocA2, DocB}

NoDoc == << >>
NoId == << >>

HasKey(d, key) == \E i \in DOMAIN d : d[i][1] = key

ValueOf(d, key) == d[CHOOSE i \in DOMAIN d : d[i][1] = key][2]

\* dict equality of Python: same keys with the same values, order ignored
DictEq(d1, d2) ==
    /\ Len(d1) = Len(d2)
    /\ \A i \in DOMAIN d1 : HasKey(d2, d1[i][1]) /\ ValueOf(d2, d1[i][1]) = d1[i][2]

\* json.dumps(data): the pairs in insertion order
Dumps(d) == [i \in 1..(2 * Len(d)) |-> d[(i + 1) \div 2][IF i % 2 = 1 THEN 1 ELSE 2]]

\* json.loads(text): a dict whose insertion order is the order of the text
Loads(t) == [i \in 1..(Len(t) \div 2) |-> <<t[2 * i - 1], t[2 * i]>>]

SortKeys(d) ==
    LET present == SelectSeq(KeyOrder, LAMBDA key : HasKey(d, key))
    IN [j \in DOMAIN present |-> <<present[j], ValueOf(d, present[j])>>]

\* a dump that keeps the insertion order of the keys
CanonicalJsonUnsorted(d) == Dumps(d)

\* json.dumps(content, separators=(",", ":"), sort_keys=True)
CanonicalJson(d) == Dumps(SortKeys(d))

\* --------------------------------------------------------------- digests
Rep(c, n) == [i \in 1..n |-> c]

HexChars == {"0", "1", "2", "3", "4", "5", "6", "7", "8", "9",
             "a", "b", "c", "d", "e", "f"}

\* a document whose digest shares exactly its first i characters with the
\* digest of DocA (16 <= i < 64)
ChainDoc(i) == << <<"c", i>> >>

\* hash_func(...).hexdigest(): a stub digest, 64 hex characters, under which
\* the digests of DocA and DocB share their first 16 characters and differ
\* in the 17th, and the digest of ChainDoc(i) shares the first i characters
\* with that of DocA.
HashFunc(t) ==
    IF t = <<"a", 1, "b", 2>> THEN Rep("0", 64)
    ELSE IF t = <<"a", 2>> THEN Rep("0", 16) \o <<"1">> \o Rep("0", 47)
    ELSE IF Len(t) = 2 /\ t[1] = "c" THEN Rep("0", t[2]) \o Rep("e", 64 - t[2])
    ELSE Rep("f", 64)

\* the digest of the dump in insertion order
FullHashUnsorted(d) == HashFunc(Dumps(d))

FullHash(d) == HashFunc(CanonicalJson(d))

\* a slice that drops the first character
HashIdFromSecond(full, k) == SubSeq(full, 2, k)

HashId(full, k) == SubSeq(full, 1, k)

\* a validation that accepts every identifier
ValidHashIdAny(h) == TRUE

\* re.fullmatch(r"^[a-f0-9]{16,64}$", hash_id)
ValidHashId(h) ==
    /\ Len(h) >= MIN_LENGTH
    /\ Len(h) <= MAX_LENGTH
    /\ \A i \in DOMAIN h : h[i] \in HexChars

Digests == {FullHash(d) : d \in Docs}

\* identifiers clients pass to load and delete: every identifier save can
\* allocate for Docs (one more character per colliding digest), and some of
\* an invalid shape: too short, too long, not lowercase hexadecimal
BadId == Rep("0", 15)

BadIds == {BadId, Rep("0", MAX_LENGTH + 1), Rep("A", MIN_LENGTH)}

GoodIds ==
    {HashId(full, n) : full \in Digests,
                       n \in MIN_LENGTH..(MIN_LENGTH + Cardinality(Digests) - 1)}

Ids == GoodIds \cup BadIds

\* ----------------------------------------------------------------- state
VARIABLES
    bucket,   \* remote: blob key -> [body, sha256]; the domain is the blobs that exist
    cache,    \* remote: per process, the lru_cache of load_filter_file, least recent first
    files,    \* local: file key -> [state, text]
    proc,     \* per process: the request it handles and the handler's locals
    hist,     \* completed requests of a single-process run, in order
    nOps,     \* requests started so far
    phase     \* the kind of run: "seq", "conc", "saves", "local", "alloc", "loop", "fault", "lfault", "cache", "pair", "chain"

vars == <<bucket, cache, files, proc, hist, nOps, phase>>

NoRes == [status |-> "none", id |-> NoId, doc |-> NoDoc]

IdleProc ==
    [pc |-> "idle", op |-> "none", doc |-> NoDoc, id |-> NoId, full |-> NoId,
     k |-> 0, upl |-> "none", seen |-> "none", had |-> {}, n0 |-> 0, res |-> NoRes]

\* an existence check that never finds a blob
ExistsNever(key) == FALSE

Exists(key) == key \in DOMAIN bucket

\* the blobs whose sha256 metadata is the digest `full`
RecordsOf(full) == {key \in DOMAIN bucket : bucket[key].sha256 = full}

Free(w) == proc[w].pc \in {"idle", "done"}

\* the runs of a single server process of which the completed requests are logged
Logged == {"seq", "alloc", "fault"}

\* the runs of a single server process
OneProcess == Logged \cup {"loop", "cache", "chain"}

\* Which process may take a new request: a process that handles none.  A
\* single-process run uses process 1 only.
Admit(w) ==
    /\ Free(w)
    /\ phase \in OneProcess => w = 1
    /\ nOps < (IF phase = "seq" THEN MaxOps
               ELSE IF phase = "pair" THEN 2 * MaxConcOps
               ELSE MaxConcOps)

\* the response of a request: the process keeps it until its next request
Finish(p, status, id, doc) ==
    [p EXCEPT !.pc = "done", !.res = [status |-> status, id |-> id, doc |-> doc]]

\* the process takes the step to p; a single-process run logs the completed request
Becomes(w, p) ==
    /\ proc' = [proc EXCEPT ![w] = p]
    /\ hist' = IF phase \in Logged /\ p.pc = "done" THEN Append(hist, p) ELSE hist
    /\ UNCHANGED phase

\* ------------------------------------------------- remote: save_filter
\* POST /api/filters arrives: generate_unique_hash computes the canonical
\* JSON, the full digest and starts at k = min_length.  (had and n0 record
\* the backend as the request found it: the keys of the records of this
\* digest, and the number of records.)
StartSave(w, d) ==
    /\ Admit(w)
    /\ Becomes(w, [IdleProc EXCEPT !.pc = "gen_exists", !.op = "save", !.doc = d,
                                   !.full = FullHash(d), !.k = MIN_LENGTH,
                                   !.had = RecordsOf(FullHash(d)),
                                   !.n0 = Cardinality(DOMAIN bucket)])
    /\ nOps' = nOps + 1
    /\ UNCHANGED <<bucket, cache, files>>

\* the comparison of the stored digest with the computed one
MetaMatchesNever(key, full) == FALSE

MetaMatchesAlways(key, full) == TRUE

MetaMatches(key, full) == bucket[key].sha256 = full

\* an existence check that reserves the candidate it finds free
GenExistsReserving(w) ==
    /\ proc[w].pc = "gen_exists"
    /\ LET candidate == HashId(proc[w].full, proc[w].k)
       IN /\ Becomes(w, [proc[w] EXCEPT !.pc =
                           IF Exists(candidate) THEN "gen_reload" ELSE "upload"])
          /\ bucket' = IF Exists(candidate) THEN bucket
                       ELSE [x \in DOMAIN bucket \cup {candidate} |->
                               IF x = candidate
                               THEN [body |-> << >>, sha256 |-> proc[w].full]
                               ELSE bucket[x]]
    /\ UNCHANGED <<cache, files, nOps>>

\* an existence check that trusts the read cache of the process when it has
\* an entry for the candidate
GenExistsCached(w) ==
    /\ proc[w].pc = "gen_exists"
    /\ LET candidate == HashId(proc[w].full, proc[w].k)
           found == IF \E i \in DOMAIN cache[w] : cache[w][i].id = candidate
                    THEN \E i \in DOMAIN cache[w] :
                            cache[w][i].id = candidate /\ cache[w][i].val # NoDoc
                    ELSE Exists(candidate)
       IN Becomes(w, [proc[w] EXCEPT !.pc = IF found THEN "gen_reload" ELSE "upload"])
    /\ UNCHANGED <<bucket, cache, files, nOps>>

\* generate_unique_hash, `if not blob.exists(): return full_hash, k, True`
GenExists(w) ==
    /\ proc[w].pc = "gen_exists"
    /\ LET candidate == HashId(proc[w].full, proc[w].k)
       IN Becomes(w, [proc[w] EXCEPT !.pc =
                        IF Exists(candidate) THEN "gen_reload" ELSE "upload"])
    /\ UNCHANGED <<bucket, cache, files, nOps>>

\* generate_unique_hash, blob.reload() and the comparison of the metadata.
\* reload() raises NotFound when the blob is gone; nothing in save_filter
\* catches it, so google's NotFound leaves the handler ("backend_notfound").
\* When k passes max_length the loop ends and RuntimeError is raised
\* ("exhausted").
GenReload(w) ==
    /\ proc[w].pc = "gen_reload"
    /\ LET candidate == HashId(proc[w].full, proc[w].k)
       IN Becomes(w,
            IF ~Exists(candidate)
            THEN Finish(proc[w], "backend_notfound", NoId, NoDoc)
            ELSE IF MetaMatches(candidate, proc[w].full)
            THEN Finish(proc[w], "ok", candidate, NoDoc)
            ELSE IF proc[w].k + 1 > MAX_LENGTH
            THEN Finish(proc[w], "exhausted", NoId, NoDoc)
            ELSE [proc[w] EXCEPT !.pc = "gen_exists", !.k = @ + 1])
    /\ UNCHANGED <<bucket, cache, files, nOps>>

\* the bucket with the blob `key` holding body and no metadata
PutBlobWithoutMetadata(key, body, full) ==
    [x \in DOMAIN bucket \cup {key} |->
        IF x = key THEN [body |-> body, sha256 |-> NoId] ELSE bucket[x]]

\* the bucket with the blob `key` holding body and metadata {"sha256": full}
PutBlob(key, body, full) ==
    [x \in DOMAIN bucket \cup {key} |->
        IF x = key THEN [body |-> body, sha256 |-> full] ELSE bucket[x]]

\* an upload without the generation precondition
UploadAlways(key, body, full) == PutBlob(key, body, full)

\* blob.upload_from_string(json.dumps(data), if_generation_match=0)
UploadIfAbsent(key, body, full) ==
    IF Exists(key) THEN bucket ELSE PutBlob(key, body, full)

\* save_filter_file and the return of save_filter: the blob is created only
\* if it does not exist; PreconditionFailed is logged and swallowed, and the
\* handler returns full_hash[:k] either way.
SaveUpload(w) ==
    /\ proc[w].pc = "upload"
    /\ LET hash_id == HashId(proc[w].full, proc[w].k)
       IN /\ bucket' = UploadIfAbsent(hash_id, Dumps(proc[w].doc), proc[w].full)
          /\ Becomes(w, Finish([proc[w] EXCEPT
                                   !.upl = IF Exists(hash_id) THEN "exists" ELSE "created"],
                               "ok", hash_id, NoDoc))
    /\ UNCHANGED <<cache, files, nOps>>

\* save_filter_file, upload_from_string raising another error than
\* PreconditionFailed (a transport error, a timeout, a 5xx answer): neither
\* save_filter_file nor save_filter catches it.  The bucket may or may not
\* have carried out the request before the error reached the process: upl is
\* "lost" when the blob was created all the same, "failed" when it was not.
SaveUploadError(w) ==
    /\ proc[w].pc = "upload"
    /\ \E committed \in BOOLEAN :
         LET hash_id == HashId(proc[w].full, proc[w].k)
             made == committed /\ ~Exists(hash_id)
         IN /\ bucket' = IF committed
                         THEN UploadIfAbsent(hash_id, Dumps(proc[w].doc), proc[w].full)
                         ELSE bucket
            /\ Becomes(w, Finish([proc[w] EXCEPT !.upl = IF made THEN "lost" ELSE "failed"],
                                 "io_error", NoId, NoDoc))
    /\ UNCHANGED <<cache, files, nOps>>

\* ------------------------------------------------- remote: load_filter
CacheHit(w, h) == \E i \in DOMAIN cache[w] : cache[w][i].id = h

CacheGet(w, h) == cache[w][CHOOSE i \in DOMAIN cache[w] : cache[w][i].id = h].val

\* a hit makes the entry the most recently used one
CacheTouch(w, h) ==
    SelectSeq(cache[w], LAMBDA e : e.id # h) \o SelectSeq(cache[w], LAMBDA e : e.id = h)

\* a store that never drops an entry
CachePutUnbounded(w, h, val) ==
    SelectSeq(cache[w], LAMBDA e : e.id # h) \o <<[id |-> h, val |-> val]>>

\* a miss stores the result; a full cache drops its least recently used entry
CachePut(w, h, val) ==
    LET c == SelectSeq(cache[w], LAMBDA e : e.id # h) \o <<[id |-> h, val |-> val]>>
    IN IF Len(c) > CACHE_MAXSIZE THEN Tail(c) ELSE c

\* load_filter: `if not data` is a 404, otherwise the document is returned
LoadResponse(p, data) ==
    IF data = NoDoc THEN Finish(p, "notfound", NoId, NoDoc)
    ELSE Finish(p, "ok", NoId, data)

\* GET /api/filters/{hash_id} arrives: validate_hash_id, then the lookup in
\* the lru_cache of load_filter_file; a hit answers without any backend call.
StartLoad(w, h) ==
    /\ Admit(w)
    /\ LET p == [IdleProc EXCEPT !.op = "load", !.id = h]
       IN IF ~ValidHashId(h)
          THEN Becomes(w, Finish(p, "invalid", NoId, NoDoc)) /\ UNCHANGED cache
          ELSE IF CacheHit(w, h)
          THEN /\ Becomes(w, LoadResponse(p, CacheGet(w, h)))
               /\ cache' = [cache EXCEPT ![w] = CacheTouch(w, h)]
          ELSE Becomes(w, [p EXCEPT !.pc = "download"]) /\ UNCHANGED cache
    /\ nOps' = nOps + 1
    /\ UNCHANGED <<bucket, files>>

\* load_filter_file on a miss: blob.download_as_bytes(), None on NotFound,
\* json.loads otherwise; lru_cache memoizes the returned value, None included.
Download(w) ==
    /\ proc[w].pc = "download"
    /\ LET h == proc[w].id
           data == IF Exists(h) THEN Loads(bucket[h].body) ELSE NoDoc
       IN /\ cache' = [cache EXCEPT ![w] = CachePut(w, h, data)]
          /\ Becomes(w, LoadResponse(proc[w], data))
    /\ UNCHANGED <<bucket, files, nOps>>

\* ----------------------------------------------- remote: delete_filter
\* DELETE /api/filters/{hash_id} arrives: validate_hash_id
StartDelete(w, h) ==
    /\ Admit(w)
    /\ LET p == [IdleProc EXCEPT !.op = "delete", !.id = h]
       IN Becomes(w, IF ValidHashId(h) THEN [p EXCEPT !.pc = "del_exists"]
                     ELSE Finish(p, "invalid", NoId, NoDoc))
    /\ nOps' = nOps + 1
    /\ UNCHANGED <<bucket, cache, files>>

\* delete_filter_file, `if not blob.exists(): return False` (a 404)
DelExists(w) ==
    /\ proc[w].pc = "del_exists"
    /\ Becomes(w, IF Exists(proc[w].id) THEN [proc[w] EXCEPT !.pc = "del_delete"]
                  ELSE Finish(proc[w], "notfound", NoId, NoDoc))
    /\ UNCHANGED <<bucket, cache, files, nOps>>

\* a delete that removes every blob whose key starts with the identifier
DelDeleteByPrefix(w) ==
    /\ proc[w].pc = "del_delete"
    /\ LET h == proc[w].id
           keep == {x \in DOMAIN bucket : Len(x) < Len(h) \/ SubSeq(x, 1, Len(h)) # h}
       IN IF Exists(h)
          THEN /\ bucket' = [x \in keep |-> bucket[x]]
               /\ Becomes(w, Finish(proc[w], "deleted", h, NoDoc))
          ELSE /\ UNCHANGED bucket
               /\ Becomes(w, Finish(proc[w], "storage_error", NoId, NoDoc))
    /\ UNCHANGED <<cache, files, nOps>>

\* delete_filter_file, blob.delete(): NotFound is a GoogleAPIError, which is
\* re-raised as RuntimeError and answered with a 500 ("storage_error").  The lru_cache of
\* load_filter_file is not touched.
DelDelete(w) ==
    /\ proc[w].pc = "del_delete"
    /\ LET h == proc[w].id
       IN IF Exists(h)
          THEN /\ bucket' = [x \in DOMAIN bucket \ {h} |-> bucket[x]]
               /\ Becomes(w, Finish(proc[w], "deleted", h, NoDoc))
          ELSE /\ UNCHANGED bucket
               /\ Becomes(w, Finish(proc[w], "storage_error", NoId, NoDoc))
    /\ UNCHANGED <<cache, files, nOps>>

\* -------------------------------------------------- local: save_filter
FileExists(key) == key \in DOMAIN files

\* POST /api/filter arrives (local variant)
LStartSave(w, d) ==
    /\ Admit(w)
    /\ Becomes(w, [IdleProc EXCEPT !.pc = "l_read", !.op = "save", !.doc = d,
                                   !.full = FullHash(d), !.k = MIN_LENGTH])
    /\ nOps' = nOps + 1
    /\ UNCHANGED <<bucket, cache, files>>

\* generate_unique_hash: read_file_content(candidate) and the comparison of
\* the stored document with the content.  No operation of the local variant
\* removes a file, so the existence check and the read are one step.  A file
\* that was opened for writing and not yet written holds no JSON document:
\* json.loads raises and the request ends as an unhandled error.
LGenRead(w) ==
    /\ proc[w].pc = "l_read"
    /\ LET candidate == HashId(proc[w].full, proc[w].k)
       IN Becomes(w,
            IF ~FileExists(candidate)
            THEN [proc[w] EXCEPT !.pc = "l_open"]
            ELSE IF files[candidate].state # "full"
            THEN Finish([proc[w] EXCEPT !.seen = "partial"], "decode_error", NoId, NoDoc)
            ELSE IF DictEq(Loads(files[candidate].text), proc[w].doc)
            THEN Finish(proc[w], "ok", candidate, NoDoc)
            ELSE IF proc[w].k + 1 > MAX_LENGTH
            THEN Finish(proc[w], "exhausted", NoId, NoDoc)
            ELSE [proc[w] EXCEPT !.k = @ + 1])
    /\ UNCHANGED <<bucket, cache, files, nOps>>

\* save_filter_file, open(file_path, "w"): creates the file or truncates it
LOpen(w) ==
    /\ proc[w].pc = "l_open"
    /\ LET hash_id == HashId(proc[w].full, proc[w].k)
       IN /\ files' = [x \in DOMAIN files \cup {hash_id} |->
                          IF x = hash_id THEN [state |-> "partial", text |-> << >>]
                          ELSE files[x]]
          /\ Becomes(w, [proc[w] EXCEPT
                           !.pc = "l_write",
                           !.upl = IF FileExists(hash_id) THEN "overwrote" ELSE "created"])
    /\ UNCHANGED <<bucket, cache, nOps>>

\* save_filter_file, json.dump and the close of the file: the text is written
\* from offset 0.  Over a longer text another writer has put there since the
\* open, the tail of that text stays and the file holds no JSON document.
LWrite(w) ==
    /\ proc[w].pc = "l_write"
    /\ LET hash_id == HashId(proc[w].full, proc[w].k)
           text == Dumps(proc[w].doc)
           torn == Len(files[hash_id].text) > Len(text)
       IN /\ files' = [files EXCEPT ![hash_id] =
                          IF torn THEN [state |-> "torn", text |-> @.text]
                          ELSE [state |-> "full", text |-> text]]
          /\ Becomes(w, Finish(proc[w], "ok", hash_id, NoDoc))
    /\ UNCHANGED <<bucket, cache, nOps>>

\* save_filter_file, open(file_path, "w") raising OSError: re-raised as
\* RuntimeError; no file was created
LOpenFail(w) ==
    /\ proc[w].pc = "l_open"
    /\ Becomes(w, Finish(proc[w], "io_error", NoId, NoDoc))
    /\ UNCHANGED <<bucket, cache, files, nOps>>

\* save_filter_file, json.dump raising OSError (a full disk, say): re-raised
\* as RuntimeError.  The except clause removes nothing: the file stays as
\* open() left it, created or truncated, with no JSON document in it.
LWriteFail(w) ==
    /\ proc[w].pc = "l_write"
    /\ Becomes(w, Finish(proc[w], "io_error", NoId, NoDoc))
    /\ UNCHANGED <<bucket, cache, files, nOps>>

\* -------------------------------------------------- local: load_filter
\* GET /api/filter/{hash_id} arrives: validate_hash_id
LStartLoad(w, h) ==
    /\ Admit(w)
    /\ LET p == [IdleProc EXCEPT !.op = "load", !.id = h]
       IN Becomes(w, IF ValidHashId(h) THEN [p EXCEPT !.pc = "l_load"]
                     ELSE Finish(p, "invalid", NoId, NoDoc))
    /\ nOps' = nOps + 1
    /\ UNCHANGED <<bucket, cache, files>>

\* load_filter_file: read_file_content, then json.loads
LLoad(w) ==
    /\ proc[w].pc = "l_load"
    /\ LET h == proc[w].id
       IN Becomes(w,
            IF ~FileExists(h) THEN Finish(proc[w], "notfound", NoId, NoDoc)
            ELSE IF files[h].state # "full"
            THEN Finish([proc[w] EXCEPT !.seen = "partial"], "decode_error", NoId, NoDoc)
            ELSE LoadResponse(proc[w], Loads(files[h].text)))
    /\ UNCHANGED <<bucket, cache, files, nOps>>

\* ------------------------------------------------------- specifications
EmptyMap == [x \in {} |-> x]

InitIn(ph) ==
    /\ bucket = EmptyMap
    /\ cache = [w \in Workers |-> << >>]
    /\ files = EmptyMap
    /\ proc = [w \in Workers |-> IdleProc]
    /\ hist = << >>
    /\ nOps = 0
    /\ phase = ph

\* several server processes on one bucket
Init == InitIn("conc")

Next ==
    \/ \E w \in Workers, d \in Docs : StartSave(w, d)
    \/ \E w \in Workers : GenExists(w)
    \/ \E w \in Workers : GenReload(w)
    \/ \E w \in Workers : SaveUpload(w)
    \/ \E w \in Workers, h \in Ids : StartLoad(w, h)
    \/ \E w \in Workers : Download(w)
    \/ \E w \in Workers, h \in Ids : StartDelete(w, h)
    \/ \E w \in Workers : DelExists(w)
    \/ \E w \in Workers : DelDelete(w)

Spec == Init /\ [][Next]_vars

\* a single server process: its requests run one at a time
SeqInit == InitIn("seq")

SeqNext ==
    \/ \E d \in Docs : StartSave(1, d)
    \/ GenExists(1)
    \/ GenReload(1)
    \/ SaveUpload(1)
    \/ \E h \in GoodIds : StartLoad(1, h)
    \/ Download(1)
    \/ \E h \in GoodIds : StartDelete(1, h)
    \/ DelExists(1)
    \/ DelDelete(1)

SeqSpec == SeqInit /\ [][SeqNext]_vars

\* several server processes on one bucket that handle saves only
SaveInit == InitIn("saves")

SaveNext ==
    \/ \E w \in Workers, d \in Docs : StartSave(w, d)
    \/ \E w \in Workers : GenExists(w)
    \/ \E w \in Workers : GenReload(w)
    \/ \E w \in Workers : SaveUpload(w)

SaveSpec == SaveInit /\ [][SaveNext]_vars

\* several server processes of the local variant on one directory
LocalInit == InitIn("local")

LocalNext ==
    \/ \E w \in Workers, d \in Docs : LStartSave(w, d)
    \/ \E w \in Workers : LGenRead(w)
    \/ \E w \in Workers : LOpen(w)
    \/ \E w \in Workers : LWrite(w)
    \/ \E w \in Workers, h \in Ids : LStartLoad(w, h)
    \/ \E w \in Workers : LLoad(w)

LocalSpec == LocalInit /\ [][LocalNext]_vars

\* a blob that save_filter_file did not write and that carries no sha256
\* metadata: `(blob.metadata or {}).get("sha256")` is None for it
ForeignBlob == [body |-> Dumps(DocB), sha256 |-> NoId]

\* the bucket in which the keys full[:16] .. full[:n] are taken by such blobs
Occupied(full, n) ==
    [key \in {HashId(full, i) : i \in MIN_LENGTH..n} |-> ForeignBlob]

\* the numbers of taken candidate keys at the two ends of the loop: none,
\* one, two, all but one, all
BoundaryLengths ==
    {MIN_LENGTH - 1, MIN_LENGTH, MIN_LENGTH + 1, MAX_LENGTH - 1, MAX_LENGTH}

\* a single server process that handles saves, the uploads of which may
\* fail, on a bucket in which the candidate keys of one digest are taken up
\* to one of the lengths `lens`
AllocInitIn(ph, lens) ==
    /\ \E n \in lens : bucket = Occupied(FullHash(DocA), n)
    /\ cache = [w \in Workers |-> << >>]
    /\ files = EmptyMap
    /\ proc = [w \in Workers |-> IdleProc]
    /\ hist = << >>
    /\ nOps = 0
    /\ phase = ph

AllocInit == AllocInitIn("alloc", BoundaryLengths)

AllocNext ==
    \/ \E d \in Docs : StartSave(1, d)
    \/ GenExists(1)
    \/ GenReload(1)
    \/ SaveUpload(1)
    \/ SaveUploadError(1)

AllocSpec == AllocInit /\ [][AllocNext]_vars

\* runs of the same kind, not logged, from every number of taken candidate
\* keys, in which the process goes on with a request it has started: the
\* handler runs to its end once the request is dispatched
LoopInit == AllocInitIn("loop", (MIN_LENGTH - 1)..MAX_LENGTH)

LoopSpec ==
    /\ LoopInit
    /\ [][AllocNext]_vars
    /\ WF_vars(GenExists(1))
    /\ WF_vars(GenReload(1))

\* a single server process that handles saves, the uploads of which may
\* fail, and loads
FaultInit == InitIn("fault")

FaultNext ==
    \/ \E d \in Docs : StartSave(1, d)
    \/ GenExists(1)
    \/ GenReload(1)
    \/ SaveUpload(1)
    \/ SaveUploadError(1)
    \/ \E h \in GoodIds : StartLoad(1, h)
    \/ Download(1)

FaultSpec == FaultInit /\ [][FaultNext]_vars

\* several server processes of the local variant, the writes of which may fail
LocalFaultInit == InitIn("lfault")

LocalFaultNext ==
    \/ \E w \in Workers, d \in Docs : LStartSave(w, d)
    \/ \E w \in Workers : LGenRead(w)
    \/ \E w \in Workers : LOpen(w)
    \/ \E w \in Workers : LOpenFail(w)
    \/ \E w \in Workers : LWrite(w)
    \/ \E w \in Workers : LWriteFail(w)
    \/ \E w \in Workers, h \in Ids : LStartLoad(w, h)
    \/ \E w \in Workers : LLoad(w)

LocalFaultSpec == LocalFaultInit /\ [][LocalFaultNext]_vars

\* the hexadecimal digits in order
HexSeq == <<"0", "1", "2", "3", "4", "5", "6", "7", "8", "9",
            "a", "b", "c", "d", "e", "f">>

\* the i-th of a series of distinct well-formed identifiers (i < 4096)
CacheId(i) ==
    Rep("c", MIN_LENGTH - 3)
        \o <<HexSeq[(i \div 256) + 1], HexSeq[((i \div 16) % 16) + 1], HexSeq[(i % 16) + 1]>>

\* the lru_cache after loads of the identifiers 1..n, none of which has a record
Filled(n) == [i \in 1..n |-> [id |-> CacheId(i), val |-> NoDoc]]

\* identifiers loaded on a full cache: its two least recently used entries,
\* its most recently used one, and two that are not in it
CacheLoadIds ==
    {CacheId(1), CacheId(2), CacheId(CACHE_MAXSIZE),
     CacheId(CACHE_MAXSIZE + 1), CacheId(CACHE_MAXSIZE + 2)}

\* a single server process that handles loads, with its lru_cache one entry
\* short of full or full
CacheInit ==
    /\ bucket = EmptyMap
    /\ \E n \in {CACHE_MAXSIZE - 1, CACHE_MAXSIZE} :
          cache = [w \in Workers |-> IF w = 1 THEN Filled(n) ELSE << >>]
    /\ files = EmptyMap
    /\ proc = [w \in Workers |-> IdleProc]
    /\ hist = << >>
    /\ nOps = 0
    /\ phase = "cache"

CacheNext ==
    \/ \E h \in CacheLoadIds : StartLoad(1, h)
    \/ Download(1)

CacheSpec == CacheInit /\ [][CacheNext]_vars

\* One sequence of saves and loads given to both variants, each on its own
\* empty store: process 1 is a server of the remote variant, process 2 a
\* server of the local variant.  A request is handled by process 1 and, once
\* it has answered, the same request is handled by process 2; the next
\* request comes when both have answered.
PairInit == InitIn("pair")

BothAnswered == nOps % 2 = 0 /\ Free(1) /\ Free(2)

RemoteAnswered == nOps % 2 = 1 /\ proc[1].pc = "done" /\ Free(2)

PairNext ==
    \/ \E d \in Docs : BothAnswered /\ StartSave(1, d)
    \/ GenExists(1)
    \/ GenReload(1)
    \/ SaveUpload(1)
    \/ \E h \in GoodIds : BothAnswered /\ StartLoad(1, h)
    \/ Download(1)
    \/ RemoteAnswered /\ proc[1].op = "save" /\ LStartSave(2, proc[1].doc)
    \/ LGenRead(2)
    \/ LOpen(2)
    \/ LWrite(2)
    \/ RemoteAnswered /\ proc[1].op = "load" /\ LStartLoad(2, proc[1].id)
    \/ LLoad(2)

PairSpec == PairInit /\ [][PairNext]_vars

\* the bucket after saves of ChainDoc(16), .., ChainDoc(n) in this order: each
\* found the shorter keys taken by the documents before it
SavedChain(n) ==
    [key \in {HashId(FullHash(DocA), i) : i \in MIN_LENGTH..n} |->
        [body |-> Dumps(ChainDoc(Len(key))), sha256 |-> FullHash(ChainDoc(Len(key)))]]

\* a single server process that handles saves and deletes on a bucket in
\* which earlier saves have taken the candidate keys of one digest up to any
\* length short of 64
ChainInit ==
    /\ \E n \in (MIN_LENGTH - 1)..(MAX_LENGTH - 1) : bucket = SavedChain(n)
    /\ cache = [w \in Workers |-> << >>]
    /\ files = EmptyMap
    /\ proc = [w \in Workers |-> IdleProc]
    /\ hist = << >>
    /\ nOps = 0
    /\ phase = "chain"

ChainNext ==
    \/ \E d \in Docs : StartSave(1, d)
    \/ GenExists(1)
    \/ GenReload(1)
    \/ SaveUpload(1)
    \/ \E h \in GoodIds \cup {FullHash(DocA)} : StartDelete(1, h)
    \/ DelExists(1)
    \/ DelDelete(1)

ChainSpec == ChainInit /\ [][ChainNext]_vars

\* ---------------------------------------------------------------- claims
SavedBy(w) == proc[w].op = "save" /\ proc[w].pc = "done"

IsSave(e) == e.op = "save" /\ e.res.status = "ok"

NoDeleteBetween(i, j) == \A x \in (i + 1)..(j - 1) : hist[x].op # "delete"

\* C1: in a run without deletes, any two save calls of identical content,
\* however their steps interleave with each other and with other saves,
\* return the same identifier, and one record is stored for the document.
C1_ConcurrentSaveRace ==
    \A w1, w2 \in Workers :
        (w1 # w2 /\ SavedBy(w1) /\ SavedBy(w2) /\ DictEq(proc[w1].doc, proc[w2].doc))
        => /\ proc[w1].res.status = "ok"
           /\ proc[w2].res.status = "ok"
           /\ proc[w1].res.id = proc[w2].res.id
           /\ Cardinality(RecordsOf(proc[w1].full)) = 1

\* the state right after the request hist[j] has returned
JustReturned(j) == j = Len(hist) /\ proc[1].pc = "done"

SameSaves(i, j) ==
    /\ i < j
    /\ hist[i].op = "save"
    /\ hist[j].op = "save"
    /\ DictEq(hist[i].doc, hist[j].doc)
    /\ NoDeleteBetween(i, j)

SecondSaveReuses(i, j) ==
    /\ IsSave(hist[i])
    /\ IsSave(hist[j])
    /\ hist[i].res.id = hist[j].res.id
    /\ hist[j].upl = "none"
    /\ JustReturned(j) => Cardinality(DOMAIN bucket) = hist[j].n0

C3_RoundTrip ==
    \A i, j \in DOMAIN hist :
        ( /\ i < j
          /\ IsSave(hist[i])
          /\ hist[j].op = "load"
          /\ hist[j].id = hist[i].res.id
          /\ \A x \in (i + 1)..(j - 1) : ~(hist[x].op = "delete" /\ hist[x].id = hist[j].id) )
        => hist[j].res.status = "ok" /\ DictEq(hist[j].res.doc, hist[i].doc)

\* C4: after delete(h) has succeeded, a load(h) with no save in between
\* returns NotFound, also when h was loaded before the delete.
C4_DeleteThenLoad ==
    \A i, j \in DOMAIN hist :
        ( /\ i < j
          /\ hist[i].op = "delete"
          /\ hist[i].res.status = "deleted"
          /\ hist[j].op = "load"
          /\ hist[j].id = hist[i].id
          /\ \A x \in (i + 1)..(j - 1) : hist[x].op # "save" )
        => hist[j].res.status = "notfound"

\* two distinct digests with the same first 16 characters
Colliding(d1, d2) ==
    /\ FullHash(d1) # FullHash(d2)
    /\ HashId(FullHash(d1), MIN_LENGTH) = HashId(FullHash(d2), MIN_LENGTH)

CollidingPairSaved ==
    /\ Len(hist) >= 2
    /\ hist[1].op = "save"
    /\ hist[2].op = "save"
    /\ Colliding(hist[1].doc, hist[2].doc)

\* C5: two documents whose digests share the first 16 characters, saved one
\* after the other into the empty store, get distinct identifiers, the first
\* of length 16 and the second longer, and afterwards load of each
\* identifier returns its own document.
C5_CollisionWidening ==
    CollidingPairSaved
    => /\ IsSave(hist[1])
       /\ IsSave(hist[2])
       /\ hist[1].res.id # hist[2].res.id
       /\ Len(hist[1].res.id) = MIN_LENGTH
       /\ Len(hist[2].res.id) > MIN_LENGTH
       /\ \A i \in {1, 2}, j \in 3..Len(hist) :
            (hist[j].op = "load" /\ hist[j].id = hist[i].res.id /\ NoDeleteBetween(2, j))
            => hist[j].res.status = "ok" /\ DictEq(hist[j].res.doc, hist[i].doc)

C5_Witness ==
    /\ CollidingPairSaved
    /\ Len(hist) >= 4
    /\ hist[3].op = "load" /\ hist[3].id = hist[1].res.id /\ hist[3].res.status = "ok"
    /\ hist[4].op = "load" /\ hist[4].id = hist[2].res.id /\ hist[4].res.status = "ok"

\* the record under the identifier a save returned holds that save's document
StoredUnder(w) ==
    /\ Exists(proc[w].res.id)
    /\ bucket[proc[w].res.id].sha256 = proc[w].full
    /\ DictEq(Loads(bucket[proc[w].res.id].body), proc[w].doc)

\* C6: two saves of different documents, also with digests that share the
\* first 16 characters and however their steps interleave, return distinct
\* identifiers, each the key of a record that holds the caller's document.
C6_DifferentContentNoInterference ==
    \A w1, w2 \in Workers :
        (w1 # w2 /\ SavedBy(w1) /\ SavedBy(w2) /\ ~DictEq(proc[w1].doc, proc[w2].doc))
        => /\ proc[w1].res.status = "ok"
           /\ proc[w2].res.status = "ok"
           /\ proc[w1].res.id # proc[w2].res.id
           /\ StoredUnder(w1)
           /\ StoredUnder(w2)

NoDeleteSoFar == proc[1].op # "delete" /\ \A x \in DOMAIN hist : hist[x].op # "delete"

OneRecordAndReuse ==
    /\ \A full \in Digests : Cardinality(RecordsOf(full)) <= 1
    /\ \A j \in DOMAIN hist :
         (hist[j].op = "save" /\ hist[j].had # {})
         => IsSave(hist[j]) /\ hist[j].res.id \in hist[j].had /\ hist[j].upl = "none"

C8_RecheckAfterLostRace ==
    \A w \in Workers :
        (SavedBy(w) /\ proc[w].upl = "exists")
        => /\ proc[w].res.status = "ok"
           /\ Exists(proc[w].res.id)
           /\ bucket[proc[w].res.id].sha256 = proc[w].full

\* C9: in the local variant no save opens for writing a file that another
\* save has created since it found the key absent, and no load or
\* allocation reads a file that is not completely written.
C9_LocalAtomicCreate ==
    \A w \in Workers : proc[w].upl # "overwrote" /\ proc[w].seen # "partial"

\* C10: a record is never changed in place: as long as a key exists, its body
\* and its sha256 metadata stay what they were when it was created, also
\* when a later save's conditional create targets the key.
C10_NeverMutated ==
    [][\A key \in DOMAIN bucket : key \in DOMAIN bucket' => bucket'[key] = bucket[key]]_vars

C10_Witness ==
    \E w \in Workers :
        /\ SavedBy(w)
        /\ proc[w].upl = "exists"
        /\ ~DictEq(Loads(bucket[proc[w].res.id].body), proc[w].doc)

\* C11: every identifier a save returns is a prefix, of 16 to 64 characters,
\* of the 64-character lowercase hexadecimal digest of the canonical form of
\* the saved document, and so matches ^[0-9a-f]{16,64}$.
C11_IdentifierShape ==
    \A w \in Workers :
        (SavedBy(w) /\ proc[w].res.status = "ok")
        => LET h == proc[w].res.id
               full == HashFunc(CanonicalJson(proc[w].doc))
           IN /\ Len(full) = 64
              /\ \A i \in DOMAIN full : full[i] \in HexChars
              /\ Len(h) >= 16
              /\ Len(h) <= 64
              /\ h = SubSeq(full, 1, Len(h))
              /\ ValidHashId(h)

C11_Witness ==
    \E w \in Workers :
        /\ SavedBy(w)
        /\ proc[w].res.status = "ok"
        /\ Len(proc[w].res.id) > MIN_LENGTH
        /\ proc[w].upl = "created"

\* generate_unique_hash has returned to the save p
Allocated(p) ==
    /\ p.op = "save"
    /\ p.pc = "upload" \/ (p.pc = "done" /\ p.res.status \in {"ok", "io_error"})

ShorterPrefixesTaken(p) ==
    \A n \in MIN_LENGTH..(p.k - 1) :
        LET key == SubSeq(p.full, 1, n)
        IN key \in DOMAIN bucket /\ bucket[key].sha256 # p.full

ShortestFreeOrOwn(p) ==
    LET key == SubSeq(p.full, 1, p.k)
    IN /\ p.k >= MIN_LENGTH
       /\ p.k <= MAX_LENGTH
       /\ ShorterPrefixesTaken(p)
       /\ p.pc = "upload" => key \notin DOMAIN bucket
       /\ (p.pc = "done" /\ p.upl = "none")
          => key \in DOMAIN bucket /\ bucket[key].sha256 = p.full

\* C12: the allocation starts at length 16 and lengthens the candidate by
\* exactly one character per step; the length k it returns is the shortest
\* one, from 16 on, whose key is unused or holds a record with this digest,
\* every key of length 16..k-1 holding a record with another digest.
C12_ShortestPrefix ==
    /\ [](Allocated(proc[1]) => ShortestFreeOrOwn(proc[1]))
    /\ [][ /\ (proc[1].pc \in {"idle", "done"} /\ proc'[1].pc = "gen_exists")
              => proc'[1].k = MIN_LENGTH
           /\ (proc[1].pc \notin {"idle", "done"} /\ proc'[1].k # proc[1].k)
              => proc'[1].k = proc[1].k + 1 ]_vars

C12_Witness ==
    /\ Allocated(proc[1])
    /\ proc[1].pc = "done"
    /\ proc[1].upl = "none"
    /\ proc[1].k >= MIN_LENGTH + 2

\* the request e changed the bucket
Wrote(e) == e.upl \in {"created", "lost"}

\* the saves hist[i] and hist[j] of one document ran their allocations on the
\* same bucket: no request from hist[i] up to hist[j] changed it
RepeatedAllocation(i, j) ==
    /\ i < j
    /\ hist[i].op = "save"
    /\ hist[j].op = "save"
    /\ DictEq(hist[i].doc, hist[j].doc)
    /\ \A x \in i..(j - 1) : ~Wrote(hist[x])

\* C13: two allocations for one document on an unchanged backend return the
\* same identifier (the same digest and length) and the same created flag,
\* or both fail.
C13_AllocationIdempotent ==
    \A i, j \in DOMAIN hist :
        RepeatedAllocation(i, j)
        => /\ Allocated(hist[i]) = Allocated(hist[j])
           /\ Allocated(hist[i])
              => /\ hist[i].k = hist[j].k
                 /\ SubSeq(hist[i].full, 1, hist[i].k) = SubSeq(hist[j].full, 1, hist[j].k)
                 /\ (hist[i].upl = "none") = (hist[j].upl = "none")

C13_Witness ==
    \E i, j \in DOMAIN hist :
        /\ RepeatedAllocation(i, j)
        /\ hist[i].doc # hist[j].doc
        /\ hist[i].upl = "failed"
        /\ hist[j].upl = "created"
        /\ hist[j].k > MIN_LENGTH

\* C14: a delete of an identifier that has no record answers NotFound and
\* leaves the bucket as it is; a delete of an identifier that has a record
\* removes that record, and only it, and answers Deleted.
C14_DeleteResult ==
    [][ (proc[1].op = "delete" /\ proc[1].pc # "done" /\ proc'[1].pc = "done")
        => LET h == proc[1].id
           IN IF h \in DOMAIN bucket
              THEN /\ proc'[1].res.status = "deleted"
                   /\ bucket' = [x \in DOMAIN bucket \ {h} |-> bucket[x]]
              ELSE /\ proc'[1].res.status = "notfound"
                   /\ bucket' = bucket ]_vars

C14_Witness ==
    \E i, j \in DOMAIN hist :
        /\ i < j
        /\ hist[i].op = "delete"
        /\ hist[i].res.status = "deleted"
        /\ hist[j].op = "delete"
        /\ hist[j].res.status = "notfound"
        /\ hist[j].id = hist[i].id
        /\ DOMAIN bucket # {}

DeletedBy(w) == proc[w].op = "delete" /\ proc[w].pc = "done" /\ ValidHashId(proc[w].id)

\* C15: of two deletes of one identifier handled by two processes at the
\* same time, each ends with Deleted or NotFound, never with a storage
\* error.
C15_ConcurrentDelete ==
    \A w1, w2 \in Workers :
        (w1 # w2 /\ DeletedBy(w1) /\ DeletedBy(w2) /\ proc[w1].id = proc[w2].id)
        => /\ proc[w1].res.status \in {"deleted", "notfound"}
           /\ proc[w2].res.status \in {"deleted", "notfound"}

\* C16: a save that failed with an I/O error has left nothing under its
\* candidate key: it has neither created nor truncated the file (local
\* variant).
C16_NoPartialStateOnError ==
    \A w \in Workers :
        (SavedBy(w) /\ proc[w].res.status = "io_error") => proc[w].upl = "none"

\* C17: a save, also one whose candidate blob a concurrent delete removes
\* between the existence check and the read of the metadata, ends with an
\* identifier, with BackendUnavailable or with HashSpaceExhausted: the
\* backend's own not-found error never leaves the handler.
C17_NoBackendNotFoundFromSave ==
    \A w \in Workers :
        SavedBy(w) => proc[w].res.status \in {"ok", "io_error", "exhausted"}

\* 16 to 64 characters, each a digit or a letter a..f
WellShaped(h) ==
    /\ Len(h) >= 16
    /\ Len(h) <= 64
    /\ \A i \in DOMAIN h : h[i] \in HexChars

\* C18: a load or a delete with an identifier that is not 16 to 64 lowercase
\* hexadecimal characters is answered at once as a caller error, and the
\* step that handles it changes neither the bucket nor any read cache.
C18_InvalidIdRejected ==
    [][ \A w \in Workers :
          ( /\ proc'[w] # proc[w]
            /\ proc'[w].op \in {"load", "delete"}
            /\ ~WellShaped(proc'[w].id) )
          => /\ proc'[w].pc = "done"
             /\ proc'[w].res.status = "invalid"
             /\ bucket' = bucket
             /\ cache' = cache ]_vars

C18_Witness ==
    \E w \in Workers :
        /\ proc[w].op = "delete"
        /\ proc[w].id = Rep("A", MIN_LENGTH)
        /\ proc[w].res.status = "invalid"
        /\ DOMAIN bucket # {}
        /\ cache[w] # << >>

\* every key full[:16] .. full[:64] of the save p holds a record with another digest
AllPrefixesTaken(p) ==
    \A n \in 16..64 :
        LET key == SubSeq(p.full, 1, n)
        IN key \in DOMAIN bucket /\ bucket[key].sha256 # p.full

\* C19: the allocation loop ends: the candidate length stays within 16..64
\* and grows with every pass of the loop, so that each length is examined at
\* most once; a started allocation returns or raises; and it raises the
\* exhaustion error exactly when every length up to 64 is taken by a record
\* with another digest.
C19_AllocationTerminates ==
    /\ [](proc[1].op = "save" => proc[1].k >= 16 /\ proc[1].k <= 64)
    /\ [][ (proc[1].pc = "gen_reload" /\ proc'[1].pc = "gen_exists")
           => proc'[1].k = proc[1].k + 1 ]_vars
    /\ []((proc[1].op = "save" /\ proc[1].pc = "done")
          => (proc[1].res.status = "exhausted" <=> AllPrefixesTaken(proc[1])))
    /\ (proc[1].pc \in {"gen_exists", "gen_reload"})
          ~> (proc[1].pc \in {"upload", "done"})

C19_Witness ==
    /\ proc[1].op = "save"
    /\ proc[1].pc = "done"
    /\ proc[1].res.status = "exhausted"
    /\ proc[1].k = MAX_LENGTH

\* the save hist[i] failed after the bucket had carried out its conditional create
LostSave(i) ==
    /\ hist[i].op = "save"
    /\ hist[i].res.status = "io_error"
    /\ hist[i].upl = "lost"

LoadAfterLostSave(i, j) ==
    (hist[j].op = "load" /\ hist[j].id = SubSeq(hist[i].full, 1, hist[i].k))
    => hist[j].res.status = "ok" /\ DictEq(hist[j].res.doc, hist[i].doc)

RetryAfterLostSave(i, j) ==
    (hist[j].op = "save" /\ DictEq(hist[j].doc, hist[i].doc))
    => /\ IsSave(hist[j])
       /\ hist[j].res.id = SubSeq(hist[i].full, 1, hist[i].k)
       /\ hist[j].upl = "none"

\* C20: after a save that failed although its conditional create was carried
\* out, a load of the identifier derived from the content returns the
\* document, and a retried save of the document returns that identifier and
\* writes nothing.
C20_RetryAfterLostSave ==
    \A i, j \in DOMAIN hist :
        (i < j /\ LostSave(i)) => LoadAfterLostSave(i, j) /\ RetryAfterLostSave(i, j)

\* C21: every record, under its key c, carries as sha256 metadata a digest F
\* of 64 hexadecimal characters of which c is a prefix and which is the
\* digest of the canonical form of the stored document.
C21_MetadataInvariant ==
    \A c \in DOMAIN bucket :
        LET F == bucket[c].sha256
        IN /\ Len(F) = 64
           /\ \A i \in DOMAIN F : F[i] \in HexChars
           /\ Len(c) <= Len(F)
           /\ c = SubSeq(F, 1, Len(c))
           /\ F = HashFunc(CanonicalJson(Loads(bucket[c].body)))

C21_Witness ==
    /\ \E c \in DOMAIN bucket : Len(c) > MIN_LENGTH
    /\ \E w \in Workers : proc[w].op = "delete" /\ proc[w].res.status = "deleted"

CacheIdsOf(c) == {c[i].id : i \in DOMAIN c}

\* C22: the read cache of a process never holds more than 256 entries, nor
\* two entries for one identifier; storing a new entry in a full cache drops
\* the least recently used entry and nothing else, and a hit only makes its
\* entry the most recently used one.
C22_CacheBounded ==
    /\ [](\A w \in Workers :
            /\ Len(cache[w]) <= 256
            /\ Cardinality(CacheIdsOf(cache[w])) = Len(cache[w]))
    /\ [][ \A w \in Workers :
             cache'[w] # cache[w]
             => LET h == cache'[w][Len(cache'[w])].id
                IN IF h \in CacheIdsOf(cache[w])
                   THEN cache'[w] = SelectSeq(cache[w], LAMBDA e : e.id # h)
                                        \o SelectSeq(cache[w], LAMBDA e : e.id = h)
                   ELSE IF Len(cache[w]) = 256
                   THEN SubSeq(cache'[w], 1, 255) = Tail(cache[w])
                   ELSE SubSeq(cache'[w], 1, Len(cache[w])) = cache[w] ]_vars

C22_Witness ==
    /\ Len(cache[1]) = CACHE_MAXSIZE
    /\ cache[1][1].id = CacheId(3)
    /\ cache[1][CACHE_MAXSIZE].id = CacheId(CACHE_MAXSIZE + 1)
    /\ cache[1][CACHE_MAXSIZE - 1].id = CacheId(1)

\* the length an allocation for the digest `full` returns on the bucket as it
\* is, 0 when it raises: a function of the digest and the bucket alone
RECURSIVE LengthOnBucket(_, _)
LengthOnBucket(full, k) ==
    IF k > MAX_LENGTH THEN 0
    ELSE LET key == SubSeq(full, 1, k)
         IN IF key \notin DOMAIN bucket \/ bucket[key].sha256 = full THEN k
            ELSE LengthOnBucket(full, k + 1)

\* generate_unique_hash has returned or raised and the bucket is still the
\* one it ran on
JustAllocated(p) ==
    /\ p.op = "save"
    /\ p.pc = "upload" \/ (p.pc = "done" /\ p.upl = "none")

\* C23: the result of an allocation, its length and its created flag, is a
\* function of the document and of the bucket; whatever the read cache of
\* the process holds, stale entries included, does not enter into it.
C23_CacheNotAuthoritative ==
    JustAllocated(proc[1])
    => LET k0 == LengthOnBucket(FullHash(proc[1].doc), MIN_LENGTH)
       IN /\ k0 = 0 <=> proc[1].res.status = "exhausted"
          /\ k0 # 0
             => /\ proc[1].k = k0
                /\ (proc[1].pc = "upload")
                     <=> (SubSeq(proc[1].full, 1, k0) \notin DOMAIN bucket)

C23_Witness ==
    /\ JustAllocated(proc[1])
    /\ proc[1].pc = "upload"
    /\ \E i \in DOMAIN cache[1] :
          /\ cache[1][i].id = SubSeq(proc[1].full, 1, proc[1].k)
          /\ cache[1][i].val # NoDoc

\* C24: the digests computed for two documents that are equal as dicts, also
\* when their keys were inserted in another order and also on different
\* calls for one document, are equal.
C24_EqualityPreservingHash ==
    \A i, j \in DOMAIN hist :
        (hist[i].op = "save" /\ hist[j].op = "save" /\ DictEq(hist[i].doc, hist[j].doc))
        => hist[i].full = hist[j].full

C24_Witness ==
    \E i, j, x \in DOMAIN hist :
        /\ i < j
        /\ j < x
        /\ hist[i].op = "save"
        /\ hist[j].op = "save"
        /\ hist[x].op = "save"
        /\ hist[i].doc = DocA
        /\ hist[j].doc = DocA2
        /\ hist[x].doc = DocA
        /\ hist[i].full = hist[x].full

\* the candidate key of the save that process w handles
CandidateOf(w) == SubSeq(proc[w].full, 1, proc[w].k)

\* the record under the candidate key of process w carries its digest
OwnRecord(w) ==
    CandidateOf(w) \in DOMAIN bucket /\ bucket[CandidateOf(w)].sha256 = proc[w].full

\* C25: the allocation returns created = true exactly when the existence
\* check finds no record under the candidate, and created = false exactly
\* when the record read under the candidate carries the digest of the input;
\* a save changes the bucket only in its upload, after created = true, and
\* the upload ends the request.
C25_CreatedFlag ==
    [][ \A w \in Workers :
          /\ (proc[w].pc = "gen_exists" /\ proc'[w] # proc[w])
             => (proc'[w].pc = "upload" <=> CandidateOf(w) \notin DOMAIN bucket)
          /\ (proc[w].pc = "gen_reload" /\ proc'[w] # proc[w])
             => ((proc'[w].pc = "done" /\ proc'[w].res.status = "ok") <=> OwnRecord(w))
          /\ (proc[w].pc = "gen_reload" /\ proc'[w].pc = "done")
             => proc'[w].upl = "none" /\ bucket' = bucket
          /\ (proc[w].op = "save" /\ proc'[w] # proc[w] /\ bucket' # bucket)
             => proc[w].pc = "upload" /\ proc'[w].pc = "done" ]_vars

C25_Witness ==
    \E w1, w2 \in Workers :
        /\ SavedBy(w1)
        /\ proc[w1].res.status = "ok"
        /\ proc[w1].upl = "none"
        /\ proc[w1].k > MIN_LENGTH
        /\ SavedBy(w2)
        /\ proc[w2].upl = "created"

\* C26: for every sequence of saves and loads given to both variants from
\* empty stores, the remote and the local variant answer each request alike:
\* the same identifier for a save, the same document or not-found for a load.
C26_LocalRemoteEquivalent ==
    (BothAnswered /\ proc[1].pc = "done")
    => /\ proc[1].res.status = proc[2].res.status
       /\ proc[1].res.id = proc[2].res.id
       /\ DictEq(proc[1].res.doc, proc[2].res.doc)

\* C27: a document that load(h) returns, from the read cache or from the
\* bucket, has a canonical-form digest of which h is a prefix, also after the
\* record under h was deleted and created again.
C27_LoadedDigestHasPrefix ==
    \A j \in DOMAIN hist :
        (hist[j].op = "load" /\ hist[j].res.status = "ok")
        => LET h == hist[j].id
               F == HashFunc(CanonicalJson(hist[j].res.doc))
           IN Len(h) <= Len(F) /\ h = SubSeq(F, 1, Len(h))

C27_Witness ==
    /\ Len(hist) > 0
    /\ proc[1].pc = "done"
    /\ LET e == hist[Len(hist)]
       IN /\ e.op = "load"
          /\ e.res.status = "ok"
          /\ e.id \in DOMAIN bucket
          /\ ~DictEq(Loads(bucket[e.id].body), e.res.doc)

\* C28: on a bucket whose records were all created by saves, no save raises
\* the exhaustion error: a record under the candidate of length 64, which is
\* the full digest, carries that digest, so the loop returns at k = 64 at
\* the latest.
C28_NoExhaustion ==
    /\ proc[1].res.status # "exhausted"
    /\ (proc[1].op = "save" /\ proc[1].k = 64 /\ SubSeq(proc[1].full, 1, 64) \in DOMAIN bucket)
       => bucket[SubSeq(proc[1].full, 1, 64)].sha256 = proc[1].full

C28_Witness ==
    /\ proc[1].op = "save"
    /\ proc[1].pc = "done"
    /\ proc[1].res.status = "ok"
    /\ proc[1].k = MAX_LENGTH
    /\ proc[1].upl = "none"

\* what a load of `key` by process w returns in the bucket b with the cache c
LoadAnswer(b, c, key) ==
    IF \E i \in DOMAIN c : c[i].id = key
    THEN c[CHOOSE i \in DOMAIN c : c[i].id = key].val
    ELSE IF key \in DOMAIN b THEN Loads(b[key].body)
    ELSE NoDoc

\* C29: a step of delete(h) leaves every record under another key, longer
\* prefixes of the same or of a colliding digest included, in the bucket and
\* unchanged, and leaves what a load of such a key returns unchanged.
C29_DeleteFrame ==
    [][ \A w \in Workers :
          (proc[w].op = "delete" /\ proc[w].pc # "done" /\ proc'[w] # proc[w])
          => \A key \in DOMAIN bucket \ {proc[w].id} :
                /\ key \in DOMAIN bucket'
                /\ bucket'[key] = bucket[key]
                /\ \A x \in Workers :
                      LoadAnswer(bucket', cache'[x], key) = LoadAnswer(bucket, cache[x], key) ]_vars

C29_Witness ==
    \E w \in Workers :
        /\ proc[w].op = "delete"
        /\ proc[w].res.status = "deleted"
        /\ Len(proc[w].id) = MIN_LENGTH
        /\ \E key \in DOMAIN bucket :
              Len(key) > MIN_LENGTH /\ SubSeq(key, 1, MIN_LENGTH) = proc[w].id

\* C30: the bucket changes only in the upload of save_filter_file and in the
\* delete of delete_filter_file: no step of a load and no step of an
\* allocation creates, changes or removes a record.
C30_ReadOnlyLoadAndAllocation ==
    [][ /\ bucket' # bucket
           => \E w \in Workers :
                 proc'[w] # proc[w] /\ proc[w].pc \in {"upload", "del_delete"}
        /\ \A w \in Workers :
              ( /\ proc'[w] # proc[w]
                /\ \/ proc[w].pc \in {"gen_exists", "gen_reload", "download"}
                   \/ proc'[w].pc \in {"gen_exists", "download"}
                   \/ proc'[w].op = "load" )
              => bucket' = bucket ]_vars

C30_Witness ==
    \E w1, w2 \in Workers :
        /\ proc[w1].op = "load"
        /\ proc[w1].res.status = "ok"
        /\ SavedBy(w2)
        /\ proc[w2].res.status = "ok"
        /\ proc[w2].upl = "none"

====
